---- MODULE Spec2Model ----
(***************************************************************************)
(* Model of src/app.py: the DR.XLSX generator.  One Streamlit script run   *)
(* loads the catalog table H and the order table S, pairs order item names *)
(* with catalog names (clean_text + match_items), copies catalog fields    *)
(* into the order table, normalises fields, and assembles the DR table.    *)
(*                                                                         *)
(* Text is a sequence of characters; a character is a one-element string.  *)
(* The module is kept ASCII: a non-ASCII character of the source is named  *)
(* by a token ("jp:kuchi" is U+53E3, "jp:[" is U+3010, ...), one token per *)
(* character.  Python's 0-based indices are kept in the mappings; row k of *)
(* a table (Python label k) is element k+1 of the sequence that models it. *)
(***************************************************************************)
EXTENDS Integers, Sequences, FiniteSets, TLC

VARIABLES
  pc,             \* position of the script run
  use_default_h,  \* sidebar checkbox (line 82)
  df_H,           \* catalog table, empty before it is loaded
  df_S,           \* order table as read (line 104)
  df_S_upd,       \* df_S.copy() and its later updates (line 112)
  s_names_clean,  \* line 108
  h_names_clean,  \* line 109
  s2h,            \* line 110
  df_DR,          \* line 141
  dr2h,           \* line 146
  ui,             \* st.error / st.warning / st.info / st.success shown
  exc,            \* unhandled exception that ended the run, "none" if none
  call,           \* a single call of a utility function: its arguments
  ret             \* ... and what it returned

vars == <<pc, use_default_h, df_H, df_S, df_S_upd, s_names_clean,
          h_names_clean, s2h, df_DR, dr2h, ui, exc, call, ret>>

(***************************************************************************)
(* Bounds of the model.                                                    *)
(***************************************************************************)
MaxHRows == 2      \* rows of a catalog table
MaxSRows == 1      \* rows of an order table
MaxTextLen == 5    \* characters of a text given to clean_text alone
MaxPostalLen == 9  \* characters of a string given to format_postal alone

(***************************************************************************)
(* Cell values.  A cell is missing (None / NaN / NaT), a str, an int, a    *)
(* finite float (held in tenths: n = 10 * value), an infinite float, a     *)
(* bool, or an object of another type.                                     *)
(***************************************************************************)
NA == [t |-> "na", s |-> <<>>, n |-> 0]
StrV(s) == [t |-> "str", s |-> s, n |-> 0]
IntV(n) == [t |-> "int", s |-> <<>>, n |-> n]
FloatV(tenths) == [t |-> "float", s |-> <<>>, n |-> tenths]
Inf == [t |-> "inf", s |-> <<>>, n |-> 1]
Bool(b) == [t |-> "bool", s |-> <<>>, n |-> IF b THEN 1 ELSE 0]
Other == [t |-> "other", s |-> <<>>, n |-> 0]

isna(x) == x.t = "na"
isstr(x) == x.t = "str"
fillna(x, s) == IF isna(x) THEN StrV(s) ELSE x

(***************************************************************************)
(* Characters and the regular expressions of clean_text.                   *)
(***************************************************************************)
Whitespace == {" ", "\t", "\n"}
Newline == {"\n"}
Digits == {"0", "1", "2", "3", "4", "5", "6", "7", "8", "9"}

SETTO == <<"jp:se", "jp:tsu", "jp:to">>                       \* U+30BB U+30C3 U+30C8
KANKOSUME == <<"jp:kan", "jp:ko", "jp:su", "jp:me">>           \* U+97D3 U+30B3 U+30B9 U+30E1
KUCHIBENI == <<"jp:kuchi", "jp:beni">>                         \* U+53E3 U+7D05
RIPPU == <<"jp:ri", "jp:tsu", "jp:pu">>                        \* U+30EA U+30C3 U+30D7
AWAGUROU == <<"jp:a", "jp:wa", "jp:gu", "jp:ro", "jp:u">>      \* U+30A2 U+30EF U+30B0 U+30ED U+30A6
BracketChars == {"[", "]", "jp:[", "jp:]", "#"}                \* [ ] U+3010 U+3011 #

StartsAt(text, i, lit) ==
  /\ i + Len(lit) - 1 <= Len(text)
  /\ \A k \in 1..Len(lit) : text[i + k - 1] = lit[k]

Min(S) == CHOOSE x \in S : \A y \in S : x <= y
Max(S) == CHOOSE x \in S : \A y \in S : x >= y

\* Where the lazy pattern  open .*? close  matched at i ends: the first place
\* after `open` where `close` matches with no newline in between ('.' does
\* not match a newline); 0 when the pattern does not match at i.
LazyEnd(text, open, close, i) ==
  LET from == i + Len(open)
      ends == {k \in from..(Len(text) + 1) :
                 /\ StartsAt(text, k, close)
                 /\ \A m \in from..(k - 1) : text[m] \notin Newline}
  IN  IF StartsAt(text, i, open) /\ ends # {} THEN Min(ends) + Len(close) ELSE 0

\* re.sub(open + ".*?" + close, "", text), scanning from position i
RECURSIVE sub_lazy(_, _, _, _)
sub_lazy(text, open, close, i) ==
  IF i > Len(text) THEN <<>>
  ELSE LET e == LazyEnd(text, open, close, i)
       IN  IF e # 0 THEN sub_lazy(text, open, close, e)
           ELSE <<text[i]>> \o sub_lazy(text, open, close, i + 1)

\* re.sub(literal, "", text), scanning from position i
RECURSIVE sub_literal(_, _, _)
sub_literal(text, lit, i) ==
  IF i > Len(text) THEN <<>>
  ELSE IF StartsAt(text, i, lit) THEN sub_literal(text, lit, i + Len(lit))
  ELSE <<text[i]>> \o sub_literal(text, lit, i + 1)

\* re.sub("[...]", "", text) for a character class
sub_class(text, class) == SelectSeq(text, LAMBDA c : c \notin class)

\* length of the run of whitespace that starts at i
RECURSIVE RunLen(_, _)
RunLen(text, i) ==
  IF i > Len(text) \/ text[i] \notin Whitespace THEN 0 ELSE 1 + RunLen(text, i + 1)

\* re.sub(r"\s{n,}", "", text), scanning from position i (greedy runs)
RECURSIVE sub_runs(_, _, _)
sub_runs(text, n, i) ==
  IF i > Len(text) THEN <<>>
  ELSE LET r == RunLen(text, i)
       IN  IF r >= n THEN sub_runs(text, n, i + r)
           ELSE IF r > 0 THEN SubSeq(text, i, i + r - 1) \o sub_runs(text, n, i + r)
           ELSE <<text[i]>> \o sub_runs(text, n, i + 1)

\* str.strip()
RECURSIVE lstrip(_)
lstrip(text) ==
  IF text # <<>> /\ Head(text) \in Whitespace THEN lstrip(Tail(text)) ELSE text

RECURSIVE rstrip(_)
rstrip(text) ==
  IF text # <<>> /\ text[Len(text)] \in Whitespace
  THEN rstrip(SubSeq(text, 1, Len(text) - 1)) ELSE text

strip(text) == rstrip(lstrip(text))

\* the nine substitutions of `patterns`, in order (lines 19-24)
sub_patterns(text) ==
  LET p1 == sub_lazy(text, <<"#">>, SETTO, 1)
      p2 == sub_lazy(p1, <<"jp:[">>, <<"jp:]">>, 1)
      p3 == sub_lazy(p2, <<"/">>, <<>>, 1)
      p4 == sub_literal(p3, KANKOSUME, 1)
      p5 == sub_literal(p4, KUCHIBENI, 1)
      p6 == sub_literal(p5, RIPPU, 1)
      p7 == sub_literal(p6, AWAGUROU, 1)
      p8 == sub_class(p7, BracketChars)
  IN  sub_runs(p8, 2, 1)

\* clean_text(text): the text of a str cell cleaned, "" for anything else
clean_text(x) ==
  IF ~isstr(x) THEN <<>>
  ELSE sub_runs(strip(sub_patterns(x.s)), 1, 1)

(***************************************************************************)
(* difflib.SequenceMatcher(None, a, b).ratio() as line 34 uses it.  With   *)
(* isjunk None and b shorter than 200 characters (no "popular" elements)   *)
(* no character is junk.  A score is the fraction num/den; Python computes *)
(* 2.0 * matches / length in floating point, and the comparisons of line   *)
(* 35 agree with the exact fractions for lengths this small.               *)
(***************************************************************************)
Score(num, den) == [num |-> num, den |-> den]
gt(x, y) == x.num * y.den > y.num * x.den

\* length of the common run of a from i and b from j, inside a[..ahi], b[..bhi]
RECURSIVE common_run(_, _, _, _, _, _)
common_run(a, b, i, j, ahi, bhi) ==
  IF i > ahi \/ j > bhi \/ a[i] # b[j] THEN 0
  ELSE 1 + common_run(a, b, i + 1, j + 1, ahi, bhi)

\* find_longest_match(alo, ahi, blo, bhi) on the closed ranges alo..ahi and
\* blo..bhi: the longest matching block, of those the one starting earliest
\* in a, of those the one starting earliest in b
find_longest_match(a, b, alo, ahi, blo, bhi) ==
  LET run(i, j) == common_run(a, b, i, j, ahi, bhi)
      pairs == (alo..ahi) \X (blo..bhi)
      size == IF pairs = {} THEN 0 ELSE Max({run(p[1], p[2]) : p \in pairs})
  IN  IF size = 0 THEN [i |-> alo, j |-> blo, size |-> 0]
      ELSE LET i == Min({p[1] : p \in {q \in pairs : run(q[1], q[2]) = size}})
               j == Min({k \in blo..bhi : run(i, k) = size})
           IN  [i |-> i, j |-> j, size |-> size]

\* sum of the sizes of get_matching_blocks(): the longest block, then the
\* pieces to its left and to its right
RECURSIVE matches(_, _, _, _, _, _)
matches(a, b, alo, ahi, blo, bhi) ==
  IF alo > ahi \/ blo > bhi THEN 0
  ELSE LET m == find_longest_match(a, b, alo, ahi, blo, bhi)
       IN  IF m.size = 0 THEN 0
           ELSE m.size + matches(a, b, alo, m.i - 1, blo, m.j - 1)
                       + matches(a, b, m.i + m.size, ahi, m.j + m.size, bhi)

\* ratio with a fault: two empty strings score 0
ratio_empty_zero(a, b) ==
  LET length == Len(a) + Len(b)
  IN  IF length = 0 THEN Score(0, 1)
      ELSE Score(2 * matches(a, b, 1, Len(a), 1, Len(b)), length)

\* ratio(): 2.0 * matches / length, 1.0 when both are empty
ratio(a, b) ==
  LET length == Len(a) + Len(b)
  IN  IF length = 0 THEN Score(1, 1)
      ELSE Score(2 * matches(a, b, 1, Len(a), 1, Len(b)), length)

(***************************************************************************)
(* match_items (lines 28-39)                                               *)
(***************************************************************************)
NoneIdx == -1   \* best_idx = None

\* better with a fault: a tie with the best so far replaces it
better_or_equal(score, threshold, best) == gt(score, threshold) /\ ~gt(best, score)

\* line 35: score > threshold and score > best
better(score, threshold, best) == gt(score, threshold) /\ gt(score, best)

\* the inner loop from target j on (0-based), with best and best_idx so far
RECURSIVE scan_targets(_, _, _, _, _, _)
scan_targets(src, tgt_list, threshold, j, best, best_idx) ==
  IF j >= Len(tgt_list) THEN best_idx
  ELSE LET score == ratio(src, tgt_list[j + 1])
       IN  IF better(score, threshold, best)
           THEN scan_targets(src, tgt_list, threshold, j + 1, score, j)
           ELSE scan_targets(src, tgt_list, threshold, j + 1, best, best_idx)

match_items(src_list, tgt_list, threshold) ==
  LET best_idx(i) == scan_targets(src_list[i + 1], tgt_list, threshold, 0, Score(0, 1), NoneIdx)
      mapped == {i \in 0..(Len(src_list) - 1) : best_idx(i) # NoneIdx}
  IN  [i \in mapped |-> best_idx(i)]

DefaultThreshold == Score(3, 10)   \* threshold=0.3

(***************************************************************************)
(* format_postal (lines 42-63).  The result is a returned str or a raised  *)
(* exception.                                                              *)
(***************************************************************************)
NO_POSTAL == <<"kr:u", "kr:pyeon", "kr:beon", "kr:ho", "kr:eops", "kr:eum">>
Returned(s) == [raised |-> "none", value |-> s]
Raised(e) == [raised |-> e, value |-> <<>>]

DigitChars == <<"0", "1", "2", "3", "4", "5", "6", "7", "8", "9">>

\* str(n) for an int n
RECURSIVE str_nat(_)
str_nat(n) == IF n < 10 THEN <<DigitChars[n + 1]>> ELSE str_nat(n \div 10) \o <<DigitChars[(n % 10) + 1]>>
str_int(n) == IF n < 0 THEN <<"-">> \o str_nat(-n) ELSE str_nat(n)

\* int(x) for a finite float held in tenths: truncation towards zero
int_of_tenths(n) == IF n >= 0 THEN n \div 10 ELSE -((-n) \div 10)

Zeros(k) == [i \in 1..k |-> "0"]

\* str.zfill(width): zeros after a leading sign
zfill(s, width) ==
  IF Len(s) >= width THEN s
  ELSE IF s # <<>> /\ s[1] \in {"+", "-"}
       THEN <<s[1]>> \o Zeros(width - Len(s)) \o Tail(s)
       ELSE Zeros(width - Len(s)) \o s

isdigit(s) == s # <<>> /\ \A k \in 1..Len(s) : s[k] \in Digits

\* re.fullmatch(r"\d{3}-\d{4}", s)
is_postal_form(s) ==
  /\ Len(s) = 8
  /\ s[4] = "-"
  /\ \A k \in {1, 2, 3, 5, 6, 7, 8} : s[k] \in Digits

\* lines 59-63, for the str the value has become
format_digits(s) ==
  LET digits == zfill(s, 7)
  IN  IF isdigit(digits) /\ Len(digits) = 7
      THEN Returned(SubSeq(digits, 1, 3) \o <<"-">> \o SubSeq(digits, 4, 7))
      ELSE Returned(NO_POSTAL)

format_postal(postal) ==
  IF isna(postal) THEN Returned(NO_POSTAL)
  ELSE IF isstr(postal) /\ is_postal_form(strip(postal.s)) THEN Returned(strip(postal.s))
  ELSE IF postal.t = "inf" THEN Raised("OverflowError")
  ELSE IF postal.t \in {"int", "bool"} THEN format_digits(str_int(postal.n))
  ELSE IF postal.t = "float" THEN format_digits(str_int(int_of_tenths(postal.n)))
  ELSE IF isstr(postal) THEN format_digits(postal.s)
  ELSE Returned(NO_POSTAL)

SeqsUpTo(S, n) == UNION {[1..k -> S] : k \in 0..n}

(***************************************************************************)
(* Tables.  A table is its column labels and its rows.  A column label is  *)
(* a field name and whether the file wrote it in capitals; a row holds one *)
(* cell per field.  Field names of the model, for the source's columns:    *)
(*   catalog H:  name = U+CD9C U+ACE0 U+C0C1 U+D488 U+BA85 (listing name), *)
(*               url = "... shoppingmall url", price = "unit_total price", *)
(*               code = product code, barcode                              *)
(*   orders S:   order_no, item_name, item_pcs, url, price, service_code   *)
(*               = "service code", country = "consignee_<country code>",   *)
(*               pkg, item_origin, currency, address = "consignee_address  *)
(*               (en)_jp...", postalcode = "consignee_ postalcode"         *)
(*   DR:         ref_no, code, name, qty, barcode (dr_cols, line 140)      *)
(***************************************************************************)
HFields == {"name", "url", "price", "code", "barcode"}
SFields == {"order_no", "item_name", "item_pcs", "url", "price", "service_code",
            "country", "pkg", "item_origin", "currency", "address", "postalcode"}

Label(f, upper) == [name |-> f, upper |-> upper]
Labels(fields, upper) == {Label(f, upper) : f \in fields}
EmptyFrame == [columns |-> {}, rows |-> <<>>]    \* pd.DataFrame()

\* df.columns = df.columns.str.lower()  (lines 95, 105)
lower_columns(df) == [df EXCEPT !.columns = {Label(c.name, FALSE) : c \in df.columns}]

\* df[f] raises KeyError unless the lower-case label is a column
has_column(df, f) == Label(f, FALSE) \in df.columns

\* pd.read_excel: a column of ints with missing cells is read as floats
upcast(rows, f) ==
  IF /\ \E k \in 1..Len(rows) : isna(rows[k][f])
     /\ \A k \in 1..Len(rows) : rows[k][f].t \in {"na", "int"}
  THEN [k \in 1..Len(rows) |->
          IF rows[k][f].t = "int" THEN [rows[k] EXCEPT ![f] = FloatV(10 * rows[k][f].n)]
          ELSE rows[k]]
  ELSE rows

RECURSIVE upcast_all(_, _)
upcast_all(rows, fields) ==
  IF fields = {} THEN rows
  ELSE LET f == CHOOSE g \in fields : TRUE
       IN  upcast_all(upcast(rows, f), fields \ {f})

read_excel(fields, upper, rows) ==
  [columns |-> Labels(fields, upper), rows |-> upcast_all(rows, fields)]

(***************************************************************************)
(* The files a run may be given.                                           *)
(***************************************************************************)
PREMIUM == <<"P", "r", "e", "m", "i", "u", "m", " ", "R", "e", "d", " ",
             "L", "i", "p", "s", "t", "i", "c", "k", " ", "#", "0", "0", "1">> \o SETTO

HNames == {NA,
           StrV(<<"A", "B", "C">>),
           StrV(<<"jp:[", "A", "jp:]">>),
           StrV(PREMIUM)}

SNames == {NA,
           StrV(<<"A", "B", "C">>),
           StrV(<<"A", " ", "B">>),
           StrV(<<"[", "A", "B", "C", "]">>),
           StrV(<<"jp:[">> \o PREMIUM \o <<"jp:]">>)}

\* catalog row k with the given name: its other cells are its own
CatalogRow(k, name) ==
  [name |-> name,
   url |-> StrV(<<"U">> \o str_nat(k)),
   price |-> IntV(100 * k),
   code |-> StrV(<<"P">> \o str_nat(k)),
   barcode |-> StrV(<<"B">> \o str_nat(k))]

Catalogs == {[k \in 1..Len(names) |-> CatalogRow(k, names[k])] :
               names \in SeqsUpTo(HNames, MaxHRows)}

BlankRow == [f \in SFields |-> NA]

Sample ==
  [order_no |-> IntV(12345), item_name |-> StrV(<<"A", "B", "C">>), item_pcs |-> IntV(2),
   url |-> StrV(<<"U", "0">>), price |-> IntV(50), service_code |-> IntV(1),
   country |-> StrV(<<"K", "R">>), pkg |-> IntV(3), item_origin |-> StrV(<<"C", "N">>),
   currency |-> StrV(<<"U", "S", "D">>), address |-> StrV(<<"T", "[", "x", "]", "o">>),
   postalcode |-> IntV(123456)]

OrderRows ==
  {BlankRow}
  \cup {[BlankRow EXCEPT ![f] = Sample[f]] : f \in {"item_name", "item_pcs", "order_no", "currency"}}
  \cup {[Sample EXCEPT !.item_name = n] : n \in SNames}
  \cup {[Sample EXCEPT !.order_no = IntV(8612345), !.item_name = StrV(<<"X", "Y", "Z">>),
                       !.postalcode =StrV(<<"1", "2", "3", "-", "4", "5", "6", "7">>)],
        [Sample EXCEPT !.order_no = StrV(<<"A", "7">>), !.postalcode = Inf, !.address = NA]}

Orders == SeqsUpTo(OrderRows, MaxSRows)

(***************************************************************************)
(* The steps of a script run.                                              *)
(***************************************************************************)
NoCall == [f |-> "none"]
NoRet == [f |-> "none"]

Init ==
  /\ pc = "start"
  /\ use_default_h \in BOOLEAN
  /\ df_H = EmptyFrame
  /\ df_S = EmptyFrame
  /\ df_S_upd = <<>>
  /\ s_names_clean = <<>>
  /\ h_names_clean = <<>>
  /\ s2h = <<>>
  /\ df_DR = <<>>
  /\ dr2h = <<>>
  /\ ui = {}
  /\ exc = "none"
  /\ call = NoCall
  /\ ret = NoRet

\* lines 84-85, 71-73, 95: default_path.exists(), and the file is read
LoadDefaultH ==
  /\ pc = "start" /\ use_default_h
  /\ \E rows \in Catalogs, upper \in BOOLEAN :
       df_H' = lower_columns(read_excel(HFields, upper, rows))
  /\ pc' = "s_upload"
  /\ UNCHANGED <<use_default_h, df_S, df_S_upd, s_names_clean,
                 h_names_clean, s2h, df_DR, dr2h, ui, exc, call, ret>>

\* lines 84-85, 71-76, 95: default_path does not exist
LoadDefaultHMissing ==
  /\ pc = "start" /\ use_default_h
  /\ ui' = ui \cup {"error: default H.xlsx missing"}
  /\ df_H' = lower_columns(EmptyFrame)
  /\ pc' = "s_upload"
  /\ UNCHANGED <<use_default_h, df_S, df_S_upd, s_names_clean,
                 h_names_clean, s2h, df_DR, dr2h, exc, call, ret>>

\* lines 86-89, 95: a catalog file is uploaded
UploadH ==
  /\ pc = "start" /\ ~use_default_h
  /\ \E rows \in Catalogs, upper \in BOOLEAN :
       df_H' = lower_columns(read_excel(HFields, upper, rows))
  /\ pc' = "s_upload"
  /\ UNCHANGED <<use_default_h, df_S, df_S_upd, s_names_clean,
                 h_names_clean, s2h, df_DR, dr2h, ui, exc, call, ret>>

\* lines 90-92: no catalog file uploaded: st.warning, st.stop()
NoCatalog ==
  /\ pc = "start" /\ ~use_default_h
  /\ ui' = ui \cup {"warning: upload H.xlsx"}
  /\ pc' = "stopped"
  /\ UNCHANGED <<use_default_h, df_H, df_S, df_S_upd, s_names_clean,
                 h_names_clean, s2h, df_DR, dr2h, exc, call, ret>>

\* lines 103, 173-174: no order file uploaded
NoOrderFile ==
  /\ pc = "s_upload"
  /\ ui' = ui \cup {"info: upload S.xlsx"}
  /\ pc' = "idle"
  /\ UNCHANGED <<use_default_h, df_H, df_S, df_S_upd, s_names_clean,
                 h_names_clean, s2h, df_DR, dr2h, exc, call, ret>>

\* lines 103-105: the order file is read
ReadS ==
  /\ pc = "s_upload"
  /\ \E rows \in Orders, upper \in BOOLEAN :
       df_S' = lower_columns(read_excel(SFields, upper, rows))
  /\ pc' = "clean"
  /\ UNCHANGED <<use_default_h, df_H, df_S_upd, s_names_clean,
                 h_names_clean, s2h, df_DR, dr2h, ui, exc, call, ret>>

\* [clean_text(x) for x in df[f].fillna("")]
clean_column(df, f) == [k \in 1..Len(df.rows) |-> clean_text(fillna(df.rows[k][f], <<>>))]

\* lines 108-109
CleanNames ==
  /\ pc = "clean"
  /\ has_column(df_S, "item_name") /\ has_column(df_H, "name")
  /\ s_names_clean' = clean_column(df_S, "item_name")
  /\ h_names_clean' = clean_column(df_H, "name")
  /\ pc' = "match_s"
  /\ UNCHANGED <<use_default_h, df_H, df_S, df_S_upd,
                 s2h, df_DR, dr2h, ui, exc, call, ret>>

\* lines 108-109: the name column of one of the tables does not exist
CleanNamesKeyError ==
  /\ pc = "clean"
  /\ ~(has_column(df_S, "item_name") /\ has_column(df_H, "name"))
  /\ exc' = "KeyError"
  /\ pc' = "crashed"
  /\ UNCHANGED <<use_default_h, df_H, df_S, df_S_upd, s_names_clean,
                 h_names_clean, s2h, df_DR, dr2h, ui, call, ret>>

\* lines 113-115: df_S_upd.at[s_idx, ...] = df_H.at[h_idx, ...]
propagate_s(upd, mapping, H) ==
  [k \in 1..Len(upd) |->
     IF (k - 1) \in DOMAIN mapping
     THEN [upd[k] EXCEPT !.url = H.rows[mapping[k - 1] + 1].url,
                         !.price = H.rows[mapping[k - 1] + 1].price]
     ELSE upd[k]]

\* lines 110-115
MapS ==
  /\ pc = "match_s"
  /\ LET m == match_items(s_names_clean, h_names_clean, DefaultThreshold)
     IN  /\ s2h' = m
         /\ df_S_upd' = propagate_s(df_S.rows, m, df_H)
  /\ pc' = "rules"
  /\ UNCHANGED <<use_default_h, df_H, df_S, s_names_clean,
                 h_names_clean, df_DR, dr2h, ui, exc, call, ret>>

\* str(x) of a cell, as Series.astype(str) gives it (pandas 1.x, 2.x: a
\* missing cell becomes the text "nan")
astype_str(x) ==
  CASE x.t = "na" -> <<"n", "a", "n">>
    [] x.t = "str" -> x.s
    [] x.t = "int" -> str_int(x.n)
    [] x.t = "float" -> (IF x.n < 0 /\ int_of_tenths(x.n) = 0 THEN <<"-">> ELSE <<>>)
                        \o str_int(int_of_tenths(x.n)) \o <<".">>
                        \o str_nat((IF x.n < 0 THEN -x.n ELSE x.n) % 10)
    [] x.t = "inf" -> <<"i", "n", "f">>
    [] x.t = "bool" -> IF x.n = 1 THEN <<"T", "r", "u", "e">> ELSE <<"F", "a", "l", "s", "e">>
    [] OTHER -> <<"o", "b", "j">>

\* lines 118-120
prefix_order_no(rows) ==
  [k \in 1..Len(rows) |->
     LET x == astype_str(rows[k].order_no)
     IN  [rows[k] EXCEPT !.order_no =
            StrV(IF StartsAt(x, 1, <<"8", "6">>) THEN x ELSE <<"8", "6">> \o x)]]

\* the (col, val) pairs of lines 121-127
FixedValues ==
  <<<<"service_code", StrV(<<"9", "9">>)>>,
    <<"country", StrV(<<"J", "P">>)>>,
    <<"pkg", StrV(<<"1">>)>>,
    <<"item_origin", StrV(<<"K", "R">>)>>,
    <<"currency", StrV(<<"J", "P", "Y">>)>>>>

\* r.dropna().shape[0]
non_missing(r) == Cardinality({f \in DOMAIN r : ~isna(r[f])})

\* lines 128-130 for one (col, val) pair
override_column(rows, col, val) ==
  [k \in 1..Len(rows) |->
     [rows[k] EXCEPT ![col] = IF non_missing(rows[k]) > 1 THEN val ELSE rows[k][col]]]

\* lines 121-130: the pairs from the n-th on, one after another
RECURSIVE override_sparse(_, _)
override_sparse(rows, n) ==
  IF n > Len(FixedValues) THEN rows
  ELSE override_sparse(override_column(rows, FixedValues[n][1], FixedValues[n][2]), n + 1)

\* strip_address with a fault: the brackets are stripped from the wrong column
strip_address_of_item_name(rows) ==
  [k \in 1..Len(rows) |->
     IF isstr(rows[k].item_name)
     THEN [rows[k] EXCEPT !.item_name = StrV(sub_lazy(rows[k].item_name.s, <<"[">>, <<"]">>, 1))]
     ELSE rows[k]]

\* lines 132-134
strip_address(rows) ==
  [k \in 1..Len(rows) |->
     IF isstr(rows[k].address)
     THEN [rows[k] EXCEPT !.address = StrV(sub_lazy(rows[k].address.s, <<"[">>, <<"]">>, 1))]
     ELSE rows[k]]

\* line 137, when no call raises
format_postal_column(rows) ==
  [k \in 1..Len(rows) |->
     [rows[k] EXCEPT !.postalcode = StrV(format_postal(rows[k].postalcode).value)]]

postal_raises(rows) ==
  \E k \in 1..Len(rows) : format_postal(rows[k].postalcode).raised # "none"

\* lines 117-137
ApplyRules ==
  /\ pc = "rules"
  /\ LET r == strip_address(override_sparse(prefix_order_no(df_S_upd), 1))
     IN  /\ ~postal_raises(r)
         /\ df_S_upd' = format_postal_column(r)
  /\ pc' = "assemble"
  /\ UNCHANGED <<use_default_h, df_H, df_S, s_names_clean,
                 h_names_clean, s2h, df_DR, dr2h, ui, exc, call, ret>>

\* lines 117-137: format_postal raises on a cell, which ends the run
ApplyRulesRaises ==
  /\ pc = "rules"
  /\ LET r == strip_address(override_sparse(prefix_order_no(df_S_upd), 1))
     IN  /\ postal_raises(r)
         /\ df_S_upd' = r
  /\ exc' = "OverflowError"
  /\ pc' = "crashed"
  /\ UNCHANGED <<use_default_h, df_H, df_S, s_names_clean,
                 h_names_clean, s2h, df_DR, dr2h, ui, call, ret>>

\* dr_rows with a fault: the DR name is the cleaned name
dr_rows_cleaned(upd) ==
  [k \in 1..Len(upd) |->
     [ref_no |-> upd[k].order_no, code |-> NA,
      name |-> StrV(clean_text(fillna(upd[k].item_name, <<>>))),
      qty |-> upd[k].item_pcs, barcode |-> NA]]

\* lines 140-144
dr_rows(upd) ==
  [k \in 1..Len(upd) |->
     [ref_no |-> upd[k].order_no, code |-> NA, name |-> upd[k].item_name,
      qty |-> upd[k].item_pcs, barcode |-> NA]]

AssembleDR ==
  /\ pc = "assemble"
  /\ df_DR' = dr_rows(df_S_upd)
  /\ pc' = "match_dr"
  /\ UNCHANGED <<use_default_h, df_H, df_S, df_S_upd, s_names_clean,
                 h_names_clean, s2h, dr2h, ui, exc, call, ret>>

\* lines 147-150: df_DR.at[dr_idx, ...] = df_H.at[h_idx, ...]
propagate_dr(dr, mapping, H) ==
  [k \in 1..Len(dr) |->
     IF (k - 1) \in DOMAIN mapping
     THEN [dr[k] EXCEPT !.code = H.rows[mapping[k - 1] + 1].code,
                        !.barcode = H.rows[mapping[k - 1] + 1].barcode,
                        !.name = H.rows[mapping[k - 1] + 1].name]
     ELSE dr[k]]

\* catalog_after_dr with a fault: the copy runs the other way, into the catalog
catalog_written(H, dr, mapping) ==
  [H EXCEPT !.rows =
     [j \in 1..Len(H.rows) |->
        IF \E k \in DOMAIN mapping : mapping[k] = j - 1
        THEN LET k == Min({i \in DOMAIN mapping : mapping[i] = j - 1})
             IN  [H.rows[j] EXCEPT !.code = dr[k + 1].code,
                                   !.barcode = dr[k + 1].barcode,
                                   !.name = dr[k + 1].name]
        ELSE H.rows[j]]]

\* lines 147-150 read df_H and assign only to df_DR
catalog_after_dr(H, dr, mapping) == H

\* lines 146-153
MapDR ==
  /\ pc = "match_dr"
  /\ LET names == [k \in 1..Len(df_DR) |-> clean_text(fillna(df_DR[k].name, <<>>))]
         m == match_items(names, h_names_clean, DefaultThreshold)
     IN  /\ dr2h' = m
         /\ df_DR' = propagate_dr(df_DR, m, df_H)
         /\ df_H' = catalog_after_dr(df_H, df_DR, m)
  /\ ui' = ui \cup {"success: DR created"}
  /\ pc' = "done"
  /\ UNCHANGED <<use_default_h, df_S, df_S_upd, s_names_clean,
                 h_names_clean, s2h, exc, call, ret>>

Next ==
  \/ LoadDefaultH
  \/ LoadDefaultHMissing
  \/ UploadH
  \/ NoCatalog
  \/ NoOrderFile
  \/ ReadS
  \/ CleanNames
  \/ CleanNamesKeyError
  \/ MapS
  \/ ApplyRules
  \/ ApplyRulesRaises
  \/ AssembleDR
  \/ MapDR

Spec == Init /\ [][Next]_vars

(***************************************************************************)
(* Single calls of the utility functions, on arguments drawn from bounded  *)
(* sets.                                                                   *)
(***************************************************************************)
Idle ==
  /\ use_default_h = TRUE
  /\ df_H = EmptyFrame
  /\ df_S = EmptyFrame
  /\ df_S_upd = <<>>
  /\ s_names_clean = <<>>
  /\ h_names_clean = <<>>
  /\ s2h = <<>>
  /\ df_DR = <<>>
  /\ dr2h = <<>>
  /\ ui = {}
  /\ exc = "none"

Return(value) ==
  /\ pc = "call"
  /\ ret' = value
  /\ pc' = "returned"
  /\ UNCHANGED <<use_default_h, df_H, df_S, df_S_upd, s_names_clean,
                 h_names_clean, s2h, df_DR, dr2h, ui, exc, call>>

TextAlphabet == {"#", "jp:se", "jp:tsu", "jp:to", "jp:[", "jp:]", "[", "/", " ",
                 "jp:kuchi", "jp:beni", "A"}
CleanInputs == {NA, IntV(5)} \cup {StrV(w) : w \in SeqsUpTo(TextAlphabet, MaxTextLen)}

InitCleanText ==
  /\ pc = "call"
  /\ call \in {[f |-> "clean_text", text |-> x] : x \in CleanInputs}
  /\ ret = NoRet
  /\ Idle

CallCleanText == Return([f |-> "clean_text", value |-> clean_text(call.text)])

SpecCleanText == InitCleanText /\ [][CallCleanText]_vars

KeyPool == {<<>>, <<"A">>, <<"A", "B">>, <<"B", "A">>, <<"A", "B", "C">>, <<"X", "Y", "Z">>}
Thresholds == {Score(-1, 10), Score(0, 1), Score(3, 10), Score(1, 2), Score(1, 1)}

InitMatchItems ==
  /\ pc = "call"
  /\ call \in {[f |-> "match_items", src_list |-> a, tgt_list |-> b, threshold |-> t] :
                 a \in SeqsUpTo(KeyPool, MaxSRows), b \in SeqsUpTo(KeyPool, MaxHRows),
                 t \in Thresholds}
  /\ ret = NoRet
  /\ Idle

CallMatchItems ==
  Return([f |-> "match_items",
          value |-> match_items(call.src_list, call.tgt_list, call.threshold)])

SpecMatchItems == InitMatchItems /\ [][CallMatchItems]_vars

PostalAlphabet == {"1", "-", " "}
PostalInputs ==
  {NA, Inf, Other, Bool(TRUE), Bool(FALSE)}
  \cup {IntV(n) : n \in {-5, 0, 12, 123456, 1234567, 12345678}}
  \cup {FloatV(n) : n \in {-5, 9, 1234567, 12345670}}
  \cup {StrV(w) : w \in SeqsUpTo(PostalAlphabet, MaxPostalLen)}

InitFormatPostal ==
  /\ pc = "call"
  /\ call \in {[f |-> "format_postal", postal |-> x] : x \in PostalInputs}
  /\ ret = NoRet
  /\ Idle

CallFormatPostal == Return([f |-> "format_postal", value |-> format_postal(call.postal)])

SpecFormatPostal == InitFormatPostal /\ [][CallFormatPostal]_vars

(***************************************************************************)
(* The claims.                                                             *)
(***************************************************************************)
Mapped == pc \in {"rules", "assemble", "match_dr", "done"} \/ exc = "OverflowError"
Ruled == pc \in {"assemble", "match_dr", "done"}
BRACKETED_PREMIUM == <<"jp:[">> \o PREMIUM \o <<"jp:]">>
P1 == <<"P", "1">>
B1 == <<"B", "1">>

\* the run of C1: one catalog row named PREMIUM (its code P1, its barcode
\* B1), one order row named PREMIUM in U+3010 U+3011 brackets with quantity 2
PremiumRun ==
  /\ Len(df_H.rows) = 1
  /\ df_H.rows[1].name = StrV(PREMIUM)
  /\ df_H.rows[1].code = StrV(P1)
  /\ df_H.rows[1].barcode = StrV(B1)
  /\ Len(df_S.rows) = 1
  /\ df_S.rows[1].item_name = StrV(BRACKETED_PREMIUM)
  /\ df_S.rows[1].item_pcs = IntV(2)

\* C1: in the run of one catalog row PREMIUM (P1, B1) and one order row
\* named PREMIUM in brackets with quantity 2, the DR table has a single row
\* with product code P1, barcode B1, quantity 2 and the catalog name.
C1_EndToEnd ==
  (pc = "done" /\ PremiumRun) =>
     /\ Len(df_DR) = 1
     /\ df_DR[1].code = StrV(P1)
     /\ df_DR[1].barcode = StrV(B1)
     /\ df_DR[1].qty = IntV(2)
     /\ df_DR[1].name = StrV(PREMIUM)

HasSub(text, lit) == \E i \in 1..Len(text) : StartsAt(text, i, lit)

\* C2: whatever the text, the output of clean_text holds no whitespace, none
\* of the four removed literals and none of the characters [ ] U+3010 U+3011 #.
C2_CleanOutput ==
  (pc = "returned" /\ call.f = "clean_text") =>
     /\ \A k \in 1..Len(ret.value) : ret.value[k] \notin Whitespace \cup BracketChars
     /\ \A lit \in {KANKOSUME, KUCHIBENI, RIPPU, AWAGUROU} : ~HasSub(ret.value, lit)

\* the scores of source key i (0-based) of a match_items call
ScoreOf(i, j) == ratio(call.src_list[i + 1], call.tgt_list[j + 1])
Targets == 0..(Len(call.tgt_list) - 1)
Sources == 0..(Len(call.src_list) - 1)
IsMax(i, j) == \A j2 \in Targets : ~gt(ScoreOf(i, j2), ScoreOf(i, j))
FirstMax(i) == Min({j \in Targets : IsMax(i, j)})
ABC == <<"A", "B", "C">>
XYZ == <<"X", "Y", "Z">>

\* the examples of C3
MatchExamples ==
  /\ (call.src_list = <<ABC>> /\ call.tgt_list = <<ABC, XYZ>> /\ call.threshold = DefaultThreshold)
       => ret.value = (0 :> 0)
  /\ (call.src_list = <<>> \/ call.tgt_list = <<>>) => DOMAIN ret.value = {}

\* C3 as stated: match_items maps source index i exactly when the maximum
\* score of source key i over the target keys exceeds the threshold, and then
\* to the smallest target index attaining the maximum.
C3_MaxAboveThreshold ==
  (pc = "returned" /\ call.f = "match_items") =>
     /\ DOMAIN ret.value =
          {i \in Sources : \E j \in Targets : IsMax(i, j) /\ gt(ScoreOf(i, j), call.threshold)}
     /\ \A i \in DOMAIN ret.value : ret.value[i] = FirstMax(i)
     /\ MatchExamples

\* C3 amended: match_items maps source index i exactly when the maximum score
\* of source key i exceeds the threshold and is greater than 0, and then to
\* the smallest target index attaining the maximum.
C3_MaxAboveThresholdAndZero ==
  (pc = "returned" /\ call.f = "match_items") =>
     /\ DOMAIN ret.value =
          {i \in Sources : \E j \in Targets :
             /\ IsMax(i, j)
             /\ gt(ScoreOf(i, j), call.threshold)
             /\ gt(ScoreOf(i, j), Score(0, 1))}
     /\ \A i \in DOMAIN ret.value : ret.value[i] = FirstMax(i)
     /\ MatchExamples

\* a call whose two targets tie for the maximum: the first is mapped
C3_TieWitness ==
  /\ pc = "returned" /\ call.f = "match_items"
  /\ call.src_list = <<<<"A">>>>
  /\ call.tgt_list = <<<<"A", "B">>, <<"B", "A">>>>
  /\ call.threshold = DefaultThreshold
  /\ ret.value = (0 :> 0)

FirstEmpty(keys) == Min({j \in 1..Len(keys) : keys[j] = <<>>})

\* C4: a source key "" with at least one target key "" is mapped to the first
\* target whose key is "", and the order row receives that catalog row's
\* URL and price.
C4_EmptyKeysPair ==
  Mapped =>
    \A i \in 1..Len(s_names_clean) :
      (s_names_clean[i] = <<>> /\ \E j \in 1..Len(h_names_clean) : h_names_clean[j] = <<>>) =>
         /\ (i - 1) \in DOMAIN s2h
         /\ s2h[i - 1] = FirstEmpty(h_names_clean) - 1
         /\ df_S_upd[i].url = df_H.rows[FirstEmpty(h_names_clean)].url
         /\ df_S_upd[i].price = df_H.rows[FirstEmpty(h_names_clean)].price

\* an order name that cleans to "" paired with the second catalog row, the
\* first whose name cleans to ""
C4_Witness ==
  /\ pc = "done"
  /\ Len(df_S.rows) >= 1 /\ isstr(df_S.rows[1].item_name) /\ s_names_clean[1] = <<>>
  /\ Len(df_H.rows) >= 2 /\ h_names_clean[1] # <<>> /\ h_names_clean[2] = <<>>
  /\ isstr(df_H.rows[2].name)
  /\ s2h[0] = 1
  /\ df_S_upd[1].url = df_H.rows[2].url

\* what C5 says format_postal returns
PadLeft(s, width) == IF Len(s) >= width THEN s ELSE Zeros(width - Len(s)) \o s
PostalOfText(s) ==
  IF isdigit(PadLeft(s, 7)) /\ Len(PadLeft(s, 7)) = 7
  THEN SubSeq(PadLeft(s, 7), 1, 3) \o <<"-">> \o SubSeq(PadLeft(s, 7), 4, 7)
  ELSE NO_POSTAL
StatedPostal(x) ==
  IF isna(x) THEN NO_POSTAL
  ELSE IF isstr(x) /\ is_postal_form(strip(x.s)) THEN strip(x.s)
  ELSE IF x.t \in {"int", "bool"} THEN PostalOfText(str_int(x.n))
  ELSE IF x.t = "float" THEN PostalOfText(str_int(int_of_tenths(x.n)))
  ELSE IF isstr(x) THEN PostalOfText(x.s)
  ELSE NO_POSTAL

\* C5: for every input format_postal never raises and follows the stated
\* precedence, so that every result is the sentinel or of the form ddd-dddd.
C5_PostalNeverRaises ==
  (pc = "returned" /\ call.f = "format_postal") =>
     /\ ret.value.raised = "none"
     /\ ret.value.value = StatedPostal(call.postal)
     /\ (ret.value.value = NO_POSTAL \/ is_postal_form(ret.value.value))

\* C6: each of the five fields of an order row is overwritten with its fixed
\* value exactly when the order row has more than one non-missing value, and
\* keeps its value otherwise; a row with one populated field keeps them all.
C6_SparseRowKept ==
  Ruled =>
    \A k \in 1..Len(df_S.rows) : \A n \in 1..Len(FixedValues) :
      df_S_upd[k][FixedValues[n][1]] =
        IF non_missing(df_S.rows[k]) > 1 THEN FixedValues[n][2]
        ELSE df_S.rows[k][FixedValues[n][1]]

\* C7: once the catalog is loaded no step of the run writes a cell of it.
C7_CatalogNeverWritten == [][pc # "start" => df_H' = df_H]_vars

\* a finished run in which both propagation passes copied catalog fields
C7_Witness ==
  /\ pc = "done"
  /\ DOMAIN s2h # {} /\ DOMAIN dr2h # {}
  /\ df_DR[1].code = df_H.rows[dr2h[0] + 1].code

\* C8: a DR row without an entry in dr2h keeps the uncleaned order item name
\* and has empty code and barcode; a row with entry j has the code, barcode
\* and name of catalog row j; either way its reference and quantity are
\* those of the same order row.
C8_DRRows ==
  pc = "done" =>
    /\ Len(df_DR) = Len(df_S.rows)
    /\ \A k \in 1..Len(df_DR) :
         /\ df_DR[k].ref_no = df_S_upd[k].order_no
         /\ df_DR[k].qty = df_S.rows[k].item_pcs
         /\ (k - 1) \notin DOMAIN dr2h =>
               /\ df_DR[k].name = df_S.rows[k].item_name
               /\ df_DR[k].code = NA
               /\ df_DR[k].barcode = NA
         /\ (k - 1) \in DOMAIN dr2h =>
               /\ df_DR[k].name = df_H.rows[dr2h[k - 1] + 1].name
               /\ df_DR[k].code = df_H.rows[dr2h[k - 1] + 1].code
               /\ df_DR[k].barcode = df_H.rows[dr2h[k - 1] + 1].barcode

\* a finished run, its catalog not empty, whose DR row is unmatched and keeps
\* a name that cleaning would have changed
C8_Witness ==
  /\ pc = "done"
  /\ Len(df_H.rows) >= 1 /\ Len(df_DR) >= 1
  /\ 0 \notin DOMAIN dr2h
  /\ isstr(df_DR[1].name) /\ clean_text(df_DR[1].name) # df_DR[1].name.s
  /\ df_DR[1].code = NA

\* C9: when the default catalog is selected and its file is missing, the
\* error is shown and the run, also with an order table uploaded, does not
\* end in an unhandled error: the mappings are empty.
C9_MissingDefaultHandled ==
  ("error: default H.xlsx missing" \in ui) =>
     /\ exc = "none"
     /\ pc # "crashed"
     /\ pc = "done" => (DOMAIN s2h = {} /\ DOMAIN dr2h = {})

\* C10: the second mapping equals the first, so an order row receives the
\* catalog URL and price exactly when the DR row of the same index receives
\* the catalog code, barcode and name, both from the same catalog row.
C10_SameMapping ==
  pc = "done" =>
    /\ DOMAIN dr2h = DOMAIN s2h
    /\ \A i \in DOMAIN s2h :
         /\ dr2h[i] = s2h[i]
         /\ df_S_upd[i + 1].url = df_H.rows[s2h[i] + 1].url
         /\ df_S_upd[i + 1].price = df_H.rows[s2h[i] + 1].price
         /\ df_DR[i + 1].code = df_H.rows[s2h[i] + 1].code
         /\ df_DR[i + 1].barcode = df_H.rows[s2h[i] + 1].barcode
         /\ df_DR[i + 1].name = df_H.rows[s2h[i] + 1].name

\* a finished run whose order row is mapped, by both passes, to the second
\* catalog row, after the rules changed other cells of the order row
C10_Witness ==
  /\ pc = "done"
  /\ Len(df_H.rows) >= 2
  /\ 0 \in DOMAIN s2h /\ s2h[0] = 1 /\ dr2h[0] = 1
  /\ df_S_upd[1].address # df_S.rows[1].address

====
